---- MODULE Spec2Model ----
(***************************************************************************)
(* The SCSI passthrough transport of scsi.py: the Linux SG_IO backend      *)
(* (_scsi_linux.py) and the Windows pass-through-direct backend            *)
(* (_scsi_windows.py), behind scsi_open / scsi_read / scsi_write /         *)
(* scsi_close.  Caller threads hold handle values in sessions; the         *)
(* operating system keeps the table of open handles and, on Windows, a     *)
(* last-error code per thread.                                             *)
(***************************************************************************)
EXTENDS Integers, Sequences, FiniteSets

\* ---------------------------------------------------------------- bounds

\* Handle values the OS can hand out (file descriptors / HANDLEs): 1..MaxHandle.
MaxHandle == 2

Handles == 1..MaxHandle
Threads == {"t1", "t2"}
Sessions == {"A", "B"}

\* ------------------------------------------------------ program constants

MAX_SENSE_SIZE == 32
SG_INTERFACE_ID_ORIG == 83
SG_DXFER_TO_DEV == -2
SG_DXFER_FROM_DEV == -3
SG_INFO_OK_MASK == 1
SG_INFO_OK == 0
SCSI_IOCTL_DATA_OUT == 0
SCSI_IOCTL_DATA_IN == 1

\* Widths of the ctypes fields the lengths are stored in: ctypes keeps the
\* low bits of an integer assigned to a fixed-width field, without a check.
UByteMod == 256
UShortMod == 65536

\* A length or duration that may not fit 31 bits is kept as two 16-bit
\* digits, value = hi * 65536 + lo with lo in 0..65535 (hi is unbounded).
Wide(n) == [hi |-> n \div UShortMod, lo |-> n % UShortMod]

\* Storing into a c_uint / ULONG field keeps the low 32 bits.
UInt32(w) == [hi |-> w.hi % UShortMod, lo |-> w.lo]

\* The c_char * 16 array of SCSIPassThroughDirect.cdb.
CdbArraySize == 16

\* ct.sizeof(SCSIPassThroughDirect) - MAX_SENSE_SIZE on a 64-bit build.
HeaderSize == 56

\* The oldest SG driver major version that has the SG_IO ioctl.
MinSgMajor == 3

\* SCSIStatus, HostStatus and DriverStatus members, by value.
SCSIStatus == {0, 2, 4, 8, 16, 20, 24, 34, 40, 48, 64}
SCSIStatus_GOOD == 0
SCSIStatus_CHECK_CONDITION == 2
HostStatus == 0..19
HostStatus_OK == 0
DriverStatus == 0..8
DriverStatus_OK == 0

\* Attributes of a Python int, and of a member of an IntEnum that defines
\* raise_if_bad: what `x.value` and `x.hex()` can resolve to.
IntAttrs == {"real", "imag", "numerator", "denominator", "bit_length",
             "to_bytes", "conjugate", "as_integer_ratio"}
IntEnumAttrs == IntAttrs \cup {"name", "value", "raise_if_bad"}

\* ------------------------------------------------------------- exceptions

NoRaise == [exc |-> "none", cls |-> "", code |-> 0]
Raise(exc, cls, code) == [exc |-> exc, cls |-> cls, code |-> code]

\* SCSIStatus.raise_if_bad: SCSIStatusError carrying the status.
SCSIStatus_raise_if_bad(status) ==
    IF status # SCSIStatus_GOOD
    THEN Raise("SCSIStatusError", "SCSIStatus", status)
    ELSE NoRaise

\* DriverStatus.raise_if_bad: a plain SCSIError whose text names the member.
DriverStatus_raise_if_bad(status) ==
    IF status # DriverStatus_OK
    THEN Raise("SCSIError", "DriverStatus", status)
    ELSE NoRaise

\* HostStatus.raise_if_bad: a plain SCSIError whose text names the member.
HostStatus_raise_if_bad(status) ==
    IF status # HostStatus_OK
    THEN Raise("SCSIError", "HostStatus", status)
    ELSE NoRaise

\* _check_for_errors, statement by statement; the first statement that
\* raises decides.  hdr is the SGIOHeader after the ioctl returned.
check_for_errors(hdr) ==
    IF (hdr.info % (SG_INFO_OK_MASK + 1)) = SG_INFO_OK THEN NoRaise
    \* sgio_hdr.status is a c_ubyte field: ctypes hands back a Python int,
    \* and `.value` is looked up on that int.
    ELSE IF "value" \notin IntAttrs THEN Raise("AttributeError", "int", 0)
    \* SCSIStatus(n) for an n that is no member.
    ELSE IF hdr.status \notin SCSIStatus
         THEN Raise("ValueError", "SCSIStatus", hdr.status)
    \* status.hex() is looked up on the enum member.
    ELSE IF "hex" \notin IntEnumAttrs THEN Raise("AttributeError", "SCSIStatus", 0)
    ELSE IF hdr.status = SCSIStatus_CHECK_CONDITION
            /\ SCSIStatus_raise_if_bad(hdr.status) # NoRaise
         THEN SCSIStatus_raise_if_bad(hdr.status)
    ELSE IF SCSIStatus_raise_if_bad(hdr.status) # NoRaise
         THEN SCSIStatus_raise_if_bad(hdr.status)
    \* DriverStatus(driver_status & 0x0f)
    ELSE IF (hdr.driver_status % 16) \notin DriverStatus
         THEN Raise("ValueError", "DriverStatus", hdr.driver_status % 16)
    ELSE IF DriverStatus_raise_if_bad(hdr.driver_status % 16) # NoRaise
         THEN DriverStatus_raise_if_bad(hdr.driver_status % 16)
    ELSE IF hdr.host_status \notin HostStatus
         THEN Raise("ValueError", "HostStatus", hdr.host_status)
    ELSE IF HostStatus_raise_if_bad(hdr.host_status) # NoRaise
         THEN HostStatus_raise_if_bad(hdr.host_status)
    ELSE Raise("SCSIError", "unknown", 0)

\* _raise_last_error: WinError(last_error) when the thread's code is not 0.
raise_last_error(last_error) ==
    IF last_error # 0 THEN Raise("WinError", "", last_error) ELSE NoRaise

\* ----------------------------------------------------------------- codec

\* strlen of a byte string: the bytes before the first NUL.
Strlen(b) ==
    IF \E i \in 1..Len(b) : b[i] = 0
    THEN (CHOOSE i \in 1..Len(b) : b[i] = 0 /\ \A j \in 1..(i - 1) : b[j] # 0) - 1
    ELSE Len(b)

\* Assigning bytes to a c_char * 16 field: ctypes copies strlen(bytes)
\* bytes into the zero-filled array and refuses more than 16.
CharArraySet(b) ==
    [i \in 1..CdbArraySize |-> IF i <= Strlen(b) THEN b[i] ELSE 0]

\* SGIOHeader(...) as _execute_command of the Linux backend builds it.
SGIOHeader(cdb, buflen, timeout, direction) ==
    [raised |-> NoRaise,
     interface_id |-> SG_INTERFACE_ID_ORIG,
     cmdp |-> cdb,
     cmd_len |-> Len(cdb) % UByteMod,
     dxfer_direction |-> direction,
     dxfer_len |-> UInt32(buflen),
     mx_sb_len |-> MAX_SENSE_SIZE % UByteMod,
     timeout |-> UInt32(Wide(timeout))]

\* SCSIPassThroughDirect(...) as _execute_command of the Windows backend
\* builds it; the constructor raises when the cdb does not fit the array.
SCSIPassThroughDirect(cdb, buflen, timeout, direction) ==
    IF Strlen(cdb) > CdbArraySize
    THEN [raised |-> Raise("ValueError", "bytes too long", Strlen(cdb))]
    ELSE [raised |-> NoRaise,
          length |-> HeaderSize % UShortMod,
          cdb_length |-> Len(cdb) % UByteMod,
          sense_info_length |-> MAX_SENSE_SIZE % UByteMod,
          data_in |-> direction % UByteMod,
          data_transfer_length |-> UInt32(buflen),
          timeout_value |-> UInt32(Wide(timeout)),
          sense_info_offset |-> UInt32(Wide(HeaderSize)),
          cdb |-> CharArraySet(cdb)]

\* scsi_read / scsi_write hand the timeout on: as given on Linux, in whole
\* seconds on Windows.
TimeoutOf(be, timeout) == IF be = "linux" THEN timeout ELSE timeout \div 1000

DirectionOf(be, op) ==
    IF be = "linux"
    THEN (IF op = "read" THEN SG_DXFER_FROM_DEV ELSE SG_DXFER_TO_DEV)
    ELSE (IF op = "read" THEN SCSI_IOCTL_DATA_IN ELSE SCSI_IOCTL_DATA_OUT)

\* The control block _execute_command builds for a request.
Encode(be, op, cdb, buflen, timeout) ==
    IF be = "linux"
    THEN SGIOHeader(cdb, buflen, TimeoutOf(be, timeout), DirectionOf(be, op))
    ELSE SCSIPassThroughDirect(cdb, buflen, TimeoutOf(be, timeout), DirectionOf(be, op))

\* ------------------------------------------------------- driver version

\* The major part taken with a divisor one digit short.
ver_major_per_thousand(version) == version \div 1000

\* _check_sg_version: the major part of X * 10000 + Y * 100 + Z.
ver_major(version) == version \div 10000

\* ------------------------------------------------------------------ state

VARIABLES
    backend,        \* the backend scsi/__init__.py selected: "linux" or "windows"
    open_handles,   \* OS handle table: handle value -> "free", the session that
                    \* a successful scsi_open returned it to, or "leaked"
    sess,           \* caller side: the handle value each session holds, and
                    \* whether it was opened / closed by the caller
    pc,             \* per thread: idle, or blocked inside the native call
    last_error,     \* per thread: the Windows last-error code (GetLastError)
    cb,             \* the request most recently encoded by _execute_command
                    \* and the control block built for it
    last            \* the most recent completed call and what it raised

vars == <<backend, open_handles, sess, pc, last_error, cb, last>>

Idle == [at |-> "idle", s |-> "", h |-> 0, op |-> "", valid |-> FALSE]

NoNative == [os |-> "none", verq |-> "none", version |-> 0,
             info |-> 0, status |-> 0, host_status |-> 0, driver_status |-> 0]

NoCall == [op |-> "none", s |-> "", raised |-> NoRaise,
           native |-> NoNative, before |-> {}, was |-> "none", stale |-> 0]

NoBlock == [req |-> [op |-> "none", cdb |-> <<>>, buflen |-> Wide(0), timeout |-> 0],
            blk |-> [raised |-> NoRaise]]

\* The handles the OS holds open.
OpenSet == {h \in Handles : open_handles[h] # "free"}
FreeSet == Handles \ OpenSet

\* POSIX open returns the lowest free descriptor; CreateFileW may return
\* any free handle value.
Allocatable(be) ==
    IF be = "linux"
    THEN {h \in FreeSet : \A g \in FreeSet : h <= g}
    ELSE FreeSet

\* A native Win32 call that succeeds is not required to clear the calling
\* thread's last-error code: it is left as it was, or set to 0.
AfterSuccess(le) == {le, 0}

Call(op, t, s, raised, native) ==
    [op |-> op, s |-> s, raised |-> raised, native |-> native,
     before |-> OpenSet, was |-> sess[s].st, stale |-> last_error[t]]

\* ----------------------------------------------------------------- inputs

\* SG version numbers a driver may report (X * 10000 + Y * 100 + Z).
Versions == {-1, 0, 20136, 29999, 30000, 30536, 40000}

\* Outcomes of a completed SG_IO, as the driver (or a mock of it) fills the
\* header in: info, status, driver_status (0x10, 0x18 carry a suggestion in
\* the high nibble), host_status.
InfoValues == {0, 1}
StatusValues == {0, 2}
DriverValues == {0, 8, 16}
HostValues == {0, 7}

Inquiry6 == <<18, 0, 0, 0, 255, 0>>
Bytes(n) == [i \in 1..n |-> 1]

\* Requests of the codec model: CDBs of 6 to 256 bytes, with and without
\* NUL bytes, and buffer lengths up to 2^32 + 255.
Cdbs == {Inquiry6, <<0, 0, 0, 0, 0, 0>>, Bytes(16), Bytes(17),
         <<1, 0>> \o Bytes(15), Bytes(255), Bytes(256)}
BufLens == {Wide(0), Wide(255), [hi |-> 65535, lo |-> 65535],
            [hi |-> 65536, lo |-> 255]}
Timeouts == {1500, 5000}

\* Requests of the session model.
MainCdbs == {Inquiry6}
MainBufLens == {Wide(255)}
MainTimeouts == {5000}

\* ------------------------------------------------------------------- Init

Init ==
    /\ backend \in {"linux", "windows"}
    /\ open_handles = [h \in Handles |-> "free"]
    /\ sess = [s \in Sessions |-> [h |-> 0, st |-> "none"]]
    /\ pc = [t \in Threads |-> Idle]
    /\ last_error = [t \in Threads |-> 0]
    /\ cb = NoBlock
    /\ last = NoCall

\* -------------------------------------------------------------- scsi_open

\* The OS-level open fails (no such device, no permission, table full).
OpenFails(t, s) ==
    /\ pc[t].at = "idle"
    /\ sess[s].st = "none"
    /\ IF backend = "linux"
       THEN /\ last' = Call("open", t, s, Raise("OSError", "open", 2),
                            [NoNative EXCEPT !.os = "fail"])
            /\ UNCHANGED last_error
       ELSE /\ last_error' = [last_error EXCEPT ![t] = 2]
            /\ last' = Call("open", t, s, raise_last_error(2),
                            [NoNative EXCEPT !.os = "fail"])
    /\ UNCHANGED <<backend, open_handles, sess, pc, cb>>

\* Linux: os.open succeeds, then the SG_GET_VERSION_NUM ioctl raises (the
\* file is no SG device). scsi_open does not close the descriptor.
OpenVersionQueryFails(t, s) ==
    /\ backend = "linux"
    /\ pc[t].at = "idle"
    /\ sess[s].st = "none"
    /\ \E h \in Allocatable(backend) :
        /\ open_handles' = [open_handles EXCEPT ![h] = "leaked"]
        /\ last' = Call("open", t, s, Raise("OSError", "ioctl", 25),
                        [NoNative EXCEPT !.os = "ok", !.verq = "fail"])
    /\ UNCHANGED <<backend, sess, pc, last_error, cb>>

\* Linux: os.open succeeds and the driver reports a version.
OpenLinux(t, s) ==
    /\ backend = "linux"
    /\ pc[t].at = "idle"
    /\ sess[s].st = "none"
    /\ \E h \in Allocatable(backend), v \in Versions :
        LET nat == [NoNative EXCEPT !.os = "ok", !.verq = "ok", !.version = v] IN
        IF ver_major(v) < MinSgMajor
        THEN /\ open_handles' = [open_handles EXCEPT ![h] = "leaked"]
             /\ last' = Call("open", t, s, Raise("NotImplementedError", "Outdated SG driver", v), nat)
             /\ UNCHANGED sess
        ELSE /\ open_handles' = [open_handles EXCEPT ![h] = s]
             /\ sess' = [sess EXCEPT ![s] = [h |-> h, st |-> "open"]]
             /\ last' = Call("open", t, s, NoRaise, nat)
    /\ UNCHANGED <<backend, pc, last_error, cb>>

\* Windows: CreateFileW succeeds; _raise_last_error then reads the thread's
\* last-error code.
OpenWindows(t, s) ==
    /\ backend = "windows"
    /\ pc[t].at = "idle"
    /\ sess[s].st = "none"
    /\ \E h \in Allocatable(backend), le \in AfterSuccess(last_error[t]) :
        /\ last_error' = [last_error EXCEPT ![t] = le]
        /\ last' = Call("open", t, s, raise_last_error(le),
                        [NoNative EXCEPT !.os = "ok"])
        /\ IF raise_last_error(le) # NoRaise
           THEN /\ open_handles' = [open_handles EXCEPT ![h] = "leaked"]
                /\ UNCHANGED sess
           ELSE /\ open_handles' = [open_handles EXCEPT ![h] = s]
                /\ sess' = [sess EXCEPT ![s] = [h |-> h, st |-> "open"]]
    /\ UNCHANGED <<backend, pc, cb>>

scsi_open(t, s) ==
    \/ OpenFails(t, s)
    \/ OpenVersionQueryFails(t, s)
    \/ OpenLinux(t, s)
    \/ OpenWindows(t, s)

\* ------------------------------------------------------------- scsi_close

\* os.close / CloseHandle on the handle value the session holds, whatever
\* that value refers to now.
scsi_close(t, s) ==
    /\ pc[t].at = "idle"
    /\ sess[s].st \in {"open", "closed"}
    /\ LET h == sess[s].h
           isopen == open_handles[h] # "free"
           nat == [NoNative EXCEPT !.os = IF isopen THEN "ok" ELSE "fail"]
       IN /\ open_handles' = [open_handles EXCEPT ![h] = "free"]
          /\ sess' = [sess EXCEPT ![s].st = "closed"]
          /\ IF backend = "linux"
             THEN /\ last' = Call("close", t, s, IF isopen THEN NoRaise ELSE Raise("OSError", "close", 9),
                                  nat)
                  /\ UNCHANGED last_error
             ELSE \E le \in (IF isopen THEN AfterSuccess(last_error[t]) ELSE {6}) :
                  /\ last_error' = [last_error EXCEPT ![t] = le]
                  /\ last' = Call("close", t, s, raise_last_error(le), nat)
    /\ UNCHANGED <<backend, pc, cb>>

\* ------------------------------------------------- scsi_read / scsi_write

\* scsi_read / scsi_write up to the native call: the buffer is allocated,
\* the control block is built, and the thread enters ioctl / DeviceIoControl.
ExecuteCall(t, s, op, cdb, buflen, timeout) ==
    /\ pc[t].at = "idle"
    /\ sess[s].st = "open"
    /\ LET blk == Encode(backend, op, cdb, buflen, timeout) IN
        /\ cb' = [req |-> [op |-> op, cdb |-> cdb, buflen |-> buflen, timeout |-> timeout],
                  blk |-> blk]
        /\ IF blk.raised # NoRaise
           THEN /\ last' = Call(op, t, s, blk.raised, NoNative)
                /\ UNCHANGED pc
           ELSE /\ pc' = [pc EXCEPT ![t] =
                           [at |-> "native", s |-> s, h |-> sess[s].h, op |-> op,
                            valid |-> open_handles[sess[s].h] # "free"]]
                /\ UNCHANGED last
    /\ UNCHANGED <<backend, open_handles, sess, last_error>>

\* The native call fails at the OS level: the handle was not open when the
\* call was made, or the driver refused the request.
ExecuteNativeFails(t) ==
    /\ pc[t].at = "native"
    /\ LET nat == [NoNative EXCEPT !.os = "fail"] IN
       IF backend = "linux"
       THEN /\ last' = Call(pc[t].op, t, pc[t].s, Raise("OSError", "ioctl", IF pc[t].valid THEN 5 ELSE 9), nat)
            /\ UNCHANGED last_error
       ELSE LET le == IF pc[t].valid THEN 1117 ELSE 6 IN
            /\ last_error' = [last_error EXCEPT ![t] = le]
            /\ last' = Call(pc[t].op, t, pc[t].s, raise_last_error(le), nat)
    /\ pc' = [pc EXCEPT ![t] = Idle]
    /\ UNCHANGED <<backend, open_handles, sess, cb>>

\* Linux: ioctl(SG_IO) returns with the header filled in; _check_for_errors
\* decides what scsi_read / scsi_write raise.
ExecuteReturnLinux(t) ==
    /\ backend = "linux"
    /\ pc[t].at = "native"
    /\ pc[t].valid
    /\ \E i \in InfoValues, st \in StatusValues, d \in DriverValues, hs \in HostValues :
        LET nat == [NoNative EXCEPT !.os = "ok", !.info = i, !.status = st,
                                    !.driver_status = d, !.host_status = hs]
        IN last' = Call(pc[t].op, t, pc[t].s, check_for_errors(nat), nat)
    /\ pc' = [pc EXCEPT ![t] = Idle]
    /\ UNCHANGED <<backend, open_handles, sess, last_error, cb>>

\* Windows: DeviceIoControl returns TRUE; its result is dropped and
\* _raise_last_error reads the thread's last-error code. The scsi_status the
\* device answered with is not looked at.
ExecuteReturnWindows(t) ==
    /\ backend = "windows"
    /\ pc[t].at = "native"
    /\ pc[t].valid
    /\ \E st \in StatusValues, le \in AfterSuccess(last_error[t]) :
        /\ last_error' = [last_error EXCEPT ![t] = le]
        /\ last' = Call(pc[t].op, t, pc[t].s, raise_last_error(le),
                        [NoNative EXCEPT !.os = "ok", !.status = st])
    /\ pc' = [pc EXCEPT ![t] = Idle]
    /\ UNCHANGED <<backend, open_handles, sess, cb>>

Execute(t) ==
    \/ \E s \in Sessions, op \in {"read", "write"}, cdb \in MainCdbs,
          n \in MainBufLens, tm \in MainTimeouts : ExecuteCall(t, s, op, cdb, n, tm)
    \/ ExecuteNativeFails(t)
    \/ ExecuteReturnLinux(t)
    \/ ExecuteReturnWindows(t)

Next ==
    \E t \in Threads :
        \/ \E s \in Sessions : scsi_open(t, s)
        \/ \E s \in Sessions : scsi_close(t, s)
        \/ Execute(t)

Spec == Init /\ [][Next]_vars

\* The codec model: one thread, one session, requests of every shape.
NextCodec ==
    \/ scsi_open("t1", "A")
    \/ \E op \in {"read", "write"}, cdb \in Cdbs, n \in BufLens, tm \in Timeouts :
          ExecuteCall("t1", "A", op, cdb, n, tm)
    \/ ExecuteNativeFails("t1")
    \/ ExecuteReturnLinux("t1")
    \/ ExecuteReturnWindows("t1")

SpecCodec == Init /\ [][NextCodec]_vars

\* ----------------------------------------------------------------- claims

IsExecute(c) == c.op \in {"read", "write"}

\* The SG_IO header of the last call came back with the abnormal flag set.
Abnormal(c) ==
    /\ backend = "linux"
    /\ IsExecute(c)
    /\ c.native.os = "ok"
    /\ (c.native.info % 2) # 0

\* C1: whenever an execute's native call completes with the abnormal info
\* flag set and a SCSI status that is not GOOD, the error raised is a
\* SCSIStatusError carrying that status, whatever the driver and host
\* status are.
C1_ScsiStatusFirst ==
    (Abnormal(last) /\ last.native.status # SCSIStatus_GOOD)
        => last.raised = Raise("SCSIStatusError", "SCSIStatus", last.native.status)

\* C2: with the abnormal flag set and a GOOD SCSI status, a masked driver
\* status that is not OK raises the driver-status error naming that code,
\* whatever the host status; a masked driver status of OK and a host status
\* that is not OK raises the host-status error naming that code.
C2_DriverThenHost ==
    (Abnormal(last) /\ last.native.status = SCSIStatus_GOOD)
        => /\ (last.native.driver_status % 16) # DriverStatus_OK
                => /\ last.raised.cls = "DriverStatus"
                   /\ last.raised.code = last.native.driver_status % 16
           /\ ((last.native.driver_status % 16) = DriverStatus_OK
                  /\ last.native.host_status # HostStatus_OK)
                => /\ last.raised.cls = "HostStatus"
                   /\ last.raised.code = last.native.host_status

\* C3: with the abnormal flag set and all three layers clean, execute
\* raises the generic unclassified error; with the abnormal flag set it
\* never returns normally.
C3_Degenerate ==
    Abnormal(last)
        => /\ last.raised # NoRaise
           /\ (/\ last.native.status = SCSIStatus_GOOD
               /\ (last.native.driver_status % 16) = DriverStatus_OK
               /\ last.native.host_status = HostStatus_OK)
                => last.raised = Raise("SCSIError", "unknown", 0)

\* C4: a scsi_open that raised leaves the set of open OS handles as it was
\* before the call, and every open OS handle is one a successful scsi_open
\* returned to a session.
C4_FailedOpenLeaksNoHandle ==
    /\ (last.op = "open" /\ last.raised # NoRaise) => OpenSet = last.before
    /\ \A h \in Handles : open_handles[h] # "free" => open_handles[h] \in Sessions

\* C5: a scsi_close on a session's already-closed handle leaves every other
\* session's open handle open, also when the OS handed the released handle
\* value out again.
C5_CloseIsolation ==
    (last.op = "close" /\ last.was = "closed")
        => \A s \in Sessions \ {last.s} :
              sess[s].st = "open" => open_handles[sess[s].h] = s

\* The native calls of the last call all succeeded and what they reported
\* is clean: nothing in this call is a reason to raise.
SucceededClean(c) ==
    /\ c.op \in {"open", "read", "write", "close"}
    /\ c.native.os = "ok"
    /\ c.op = "open" /\ backend = "linux"
         => c.native.verq = "ok" /\ (c.native.version \div 10000) >= 3
    /\ IsExecute(c)
         => (c.native.info % 2) = 0 /\ c.native.status = SCSIStatus_GOOD

\* C6: after an execute failed at the OS level on an open handle (the only
\* call that leaves last-error 1117 behind), a later open, execute or close
\* on the same thread whose native call succeeds with a clean status does
\* not raise.
C6_FailedExecuteLeavesNothing ==
    (SucceededClean(last) /\ last.stale \in {0, 1117}) => last.raised = NoRaise

\* C7: on the Linux backend a scsi_open whose driver reports a version with
\* major (v div 10000) below 3 raises the unsupported-driver error and hands
\* no handle to the session; with major 3 or above it returns a handle that
\* is open and belongs to the session.
C7_DriverVersionGate ==
    (backend = "linux" /\ last.op = "open" /\ last.native.verq = "ok")
        => IF (last.native.version \div 10000) < 3
           THEN /\ last.raised.exc = "NotImplementedError"
                /\ sess[last.s].st = "none"
           ELSE /\ last.raised = NoRaise
                /\ sess[last.s].st = "open"
                /\ sess[last.s].h \in Handles
                /\ open_handles[sess[last.s].h] = last.s

\* A version 2.99.99 driver was just refused while another session, opened
\* on a driver of major 3 or above, is open.
C7_Witness ==
    /\ backend = "linux"
    /\ last.op = "open"
    /\ last.native.verq = "ok"
    /\ last.native.version = 29999
    /\ last.raised.exc = "NotImplementedError"
    /\ \E s \in Sessions : sess[s].st = "open" /\ open_handles[sess[s].h] = s

\* C8: on the Windows backend an execute whose native call succeeds with a
\* SCSI status that is not GOOD raises a classified SCSI status error.
C8_WindowsDecodesStatus ==
    (backend = "windows" /\ IsExecute(last) /\ last.native.os = "ok"
        /\ last.native.status # SCSIStatus_GOOD)
        => last.raised = Raise("SCSIStatusError", "SCSIStatus", last.native.status)

\* C9: at most one thread is inside the native call on any one handle.
C9_PerHandleMutex ==
    \A t1, t2 \in Threads :
        (t1 # t2 /\ pc[t1].at = "native" /\ pc[t2].at = "native")
            => pc[t1].h # pc[t2].h

\* The CDB bytes the control block hands to the native call.
CdbHanded(blk) ==
    IF backend = "linux" THEN blk.cmdp
    ELSE SubSeq(blk.cdb, 1, blk.cdb_length)

\* C10: for every CDB and buffer length, the control block is built (no
\* rejection), its CDB-length field is len(cdb), its transfer-length field
\* is len(buffer), and the CDB bytes are the caller's.
C10_LengthFidelity ==
    cb.req.op # "none"
        => /\ cb.blk.raised = NoRaise
           /\ (IF backend = "linux" THEN cb.blk.cmd_len ELSE cb.blk.cdb_length)
                 = Len(cb.req.cdb)
           /\ (IF backend = "linux" THEN cb.blk.dxfer_len
                ELSE cb.blk.data_transfer_length) = cb.req.buflen
           /\ CdbHanded(cb.blk) = cb.req.cdb

====
